---- MODULE Spec2Model ----
(***************************************************************************)
(* A state-machine model of satfarm's SatImage processor.                  *)
(*                                                                         *)
(* A processor object owns a reference to a raster (`image`, or None) and  *)
(* a reference to a Python list (`log`).  Python lists are objects: two    *)
(* processors can hold the same list.  The model therefore keeps a heap of *)
(* list objects (`lists`) and gives every processor the index of the list  *)
(* it holds (`log`).  Rasters are never shared between processors by the   *)
(* library's own operations (every producing operation builds new array    *)
(* data), so a raster is a value stored per processor.                     *)
(*                                                                         *)
(* Sample values are fixed-point numbers with one binary fraction digit:   *)
(* the integer v stands for the real v/2, so that the cast float -> uint8  *)
(* (truncation) is not the identity.  NaN and None are the sentinels       *)
(* below.                                                                  *)
(*                                                                         *)
(* A band label is [kind, text].  kind is "int" for the integer band       *)
(* coordinates rioxarray gives a raster it opens (1..n) and "str" for      *)
(* labels that are Python strings.  text is the label as f"{label}" prints *)
(* it, kept as a pair <<prefix, number>>: "B3" is <<"B", 3>>, "3" is       *)
(* <<"", 3>> and "red" is <<"red", 0>>.                                     *)
(***************************************************************************)
EXTENDS Integers, Sequences, FiniteSets, TLC

\* args holds the arguments the last call was made with (history only).
\* time[p] is the timestamp processor p carries, None until one is set.
\* gens holds the generator objects calculate_index has handed out.
VARIABLES image, log, lists, last, calls, args, time, gens

vars == <<image, log, lists, last, calls, args, time, gens>>

\* ------------------------------------------------------------------ bounds
\* The number of processor objects that may exist.
NProc == 3
\* The number of calls in a run.
MaxCalls == 2

\* ------------------------------------------------------------- sample values
NaN == -1
None == -2

NoCRS == "None"
NoImage == [dims |-> "None", crs |-> NoCRS, dtype |-> "None", nodata |-> None, bands |-> <<>>]

Band(kind, text, px) == [label |-> [kind |-> kind, text |-> text], px |-> px]

\* f"{label}": the label as a Python string.
Str(label) == [kind |-> "str", text |-> label.text]

\* The raster holds the dimensions ("band", "y", "x") in that order.
DimsOk(r) == r.dims = "band_y_x"

NBands(r) == Len(r.bands)

RMin(a, b) == IF a < b THEN a ELSE b

\* numpy's astype on one sample: a cast to uint8 truncates the fraction (NaN
\* becomes 0), a cast to float32 keeps the value.
CastSample(v, dtype) ==
    IF dtype = "uint8"
    THEN (IF v = NaN THEN 0 ELSE 2 * (v \div 2))
    ELSE v

CastPx(px, dtype) == [i \in 1..Len(px) |-> CastSample(px[i], dtype)]

Astype(r, dtype) ==
    [r EXCEPT !.dtype = dtype,
              !.bands = [b \in 1..Len(r.bands) |->
                            [r.bands[b] EXCEPT !.px = CastPx(@, dtype)]]]

\* ----------------------------------------------------------------- inputs
\* The rasters a caller can hand to read_tif.  FileA is what rioxarray opens
\* from a one-band GeoTIFF (integer band coordinate 1); FileB is a two-band
\* DataArray whose bands the caller has named; FileNoCrs has no CRS; FileYXB
\* has its axes in the order (y, x, band).
FileA == [dims |-> "band_y_x", crs |-> "EPSG:4326", dtype |-> "float32", nodata |-> None,
          bands |-> << Band("int", <<"", 1>>, <<3>>) >>]
FileB == [dims |-> "band_y_x", crs |-> "EPSG:4326", dtype |-> "float32", nodata |-> 0,
          bands |-> << Band("str", <<"red", 0>>, <<0>>), Band("str", <<"nir", 0>>, <<5>>) >>]
FileNoCrs == [dims |-> "band_y_x", crs |-> NoCRS, dtype |-> "uint8", nodata |-> None,
              bands |-> << Band("int", <<"", 1>>, <<2>>) >>]
FileYXB == [dims |-> "y_x_band", crs |-> "EPSG:4326", dtype |-> "uint8", nodata |-> None,
            bands |-> << Band("int", <<"", 1>>, <<2>>) >>]
Files == {FileA, FileB, FileNoCrs, FileYXB}

\* ------------------------------------------------------------------ the log
Entry(action) == [action |-> action, refs |-> <<>>]

\* self.log: the list object processor p holds.
LogOf(p) == lists[log[p]]

\* add_log as an assignment of a new one-entry list.
add_log_replaces(ls, lg, p, e) == [ls EXCEPT ![lg[p]] = << e >>]

\* add_log: self.log.append(log), on the list object p holds.
add_log_lists(ls, lg, p, e) == [ls EXCEPT ![lg[p]] = Append(@, e)]

Procs == 1..Len(image)

\* --------------------------------------------------------------- validation
\* check_image_format's three checks; the first is that a raster is held.
FormatValid(r) == r # NoImage /\ DimsOk(r) /\ r.crs # NoCRS

\* The outcome of a call: the operation, the receiver, how it ended ("ok" or
\* the error raised) and the object returned (a processor, or 0).
Outcome(op, p, res, ret) == [op |-> op, self |-> p, res |-> res, ret |-> ret]

Done(op, p, res, ret) ==
    /\ last' = Outcome(op, p, res, ret)
    /\ calls' = calls + 1

\* The methods of src/ leave the timestamps alone, and only a generator's
\* own steps move a generator.
Returns(op, p, res, ret) ==
    /\ Done(op, p, res, ret)
    /\ UNCHANGED <<time, gens>>

\* A call that raises before it has changed anything.
Raises(op, p, err) ==
    /\ Returns(op, p, err, 0)
    /\ UNCHANGED <<image, log, lists>>

\* A call that returns a value and changes nothing.
ReadOnly(op, p) ==
    /\ Returns(op, p, "ok", 0)
    /\ UNCHANGED <<image, log, lists>>


\* ------------------------------------------------------------ construction
\* SatImage.__init__: image None, log [{"action": "initialize"}], a new list.
NewLog == << Entry("initialize") >>

\* SatImage(): a new processor object with a new list.
Construct ==
    /\ Len(image) < NProc
    /\ image' = Append(image, NoImage)
    /\ lists' = Append(lists, NewLog)
    /\ log' = Append(log, Len(lists) + 1)
    /\ Returns("SatImage", Len(image) + 1, "ok", Len(image) + 1)

\* A processor right after SatImage(), or after SatImage().read_tif(f) has
\* returned for a valid raster f.
Loaded(f) == [image |-> f, lst |-> << Entry("initialize"), Entry("read_tif") >>]
Fresh == [image |-> NoImage, lst |-> NewLog]
Starts == {Fresh, Loaded(FileA), Loaded(FileB)}

Init ==
    /\ \E s \in [1..2 -> Starts] :
          /\ image = [p \in 1..2 |-> s[p].image]
          /\ lists = [p \in 1..2 |-> s[p].lst]
    /\ log = [p \in 1..2 |-> p]
    /\ last = Outcome("SatImage", 0, "ok", 0)
    /\ calls = 0
    /\ args = <<>>
    /\ time = [p \in 1..NProc |-> None]
    /\ gens = <<>>

\* --------------------------------------------------------------------- I/O
\* read_tif(file): `opens` is whether rioxarray can open a path or buffer; a
\* DataArray is stored as it is.  The raster is stored and the entry appended
\* before check_image_format(raise_error=True) runs.
read_tif(p, f, opens) ==
    IF ~opens THEN Raises("read_tif", p, "IOError")
    ELSE /\ image' = [image EXCEPT ![p] = f]
         /\ lists' = add_log_lists(lists, log, p, Entry("read_tif"))
         /\ UNCHANGED log
         /\ IF FormatValid(f) THEN Returns("read_tif", p, "ok", p)
            ELSE Returns("read_tif", p, "ValueError", 0)

\* check_image_format(raise_error): self.image.dims is read whatever self.image
\* is, so an empty processor raises AttributeError.
check_image_format(p, raise_error) ==
    /\ UNCHANGED <<image, log, lists>>
    /\ IF image[p] = NoImage THEN Returns("check_image_format", p, "AttributeError", 0)
       ELSE IF FormatValid(image[p]) THEN Returns("check_image_format", p, "True", 0)
       ELSE IF raise_error THEN Returns("check_image_format", p, "ValueError", 0)
       ELSE Returns("check_image_format", p, "False", 0)

\* ---------------------------------------------------------------- the log
\* set_log(logs): self.log = logs, a list object the caller built.
set_log(p, logs) ==
    /\ lists' = Append(lists, logs)
    /\ log' = [log EXCEPT ![p] = Len(lists) + 1]
    /\ UNCHANGED image
    /\ Returns("set_log", p, "ok", p)

add_log(p, e) ==
    /\ lists' = add_log_lists(lists, log, p, e)
    /\ UNCHANGED <<image, log>>
    /\ Returns("add_log", p, "ok", p)

\* An operation that replaces p's raster by r and appends one entry.
Mutates(op, p, r) ==
    /\ image' = [image EXCEPT ![p] = r]
    /\ lists' = add_log_lists(lists, log, p, Entry(op))
    /\ UNCHANGED log
    /\ Returns(op, p, "ok", p)

\* ------------------------------------------------------------ basic operations
change_pixel_dtype(p, dtype) ==
    IF image[p] = NoImage THEN Raises("change_pixel_dtype", p, "ImageEmpty")
    ELSE Mutates("change_pixel_dtype", p, Astype(image[p], dtype))

\* numpy's != on two samples: NaN differs from everything, NaN included.
Differs(a, b) == a = NaN \/ b = NaN \/ a # b

\* get_aoi: band 0 against the nodata value; every pixel when nodata is None.
Aoi(r) ==
    [i \in 1..Len(r.bands[1].px) |->
        IF r.nodata = None THEN TRUE
        ELSE IF r.nodata = NaN THEN r.bands[1].px[i] # NaN
        ELSE Differs(r.bands[1].px[i], r.nodata)]

\* change_nodata's own mask for one old value (None: the raster's nodata).
NodataMask(r, val) ==
    [i \in 1..Len(r.bands[1].px) |->
        IF val = NaN THEN r.bands[1].px[i] # NaN
        ELSE Differs(r.bands[1].px[i], val)]

\* An overwrite that reaches the first band only.
OverwriteFirstBand(r, aoi, new) ==
    [r EXCEPT !.nodata = new,
              !.bands = [b \in 1..Len(r.bands) |->
                  [r.bands[b] EXCEPT !.px =
                      [i \in 1..Len(@) |->
                          IF aoi[i] \/ b > 1 THEN @[i] ELSE CastSample(new, r.dtype)]]]]

\* self.image.data[:, ~aoi] = new_nodata; write_nodata(new_nodata)
\* The overwrite without write_nodata.
OverwriteKeepsNodata(r, aoi, new) ==
    [r EXCEPT !.bands = [b \in 1..Len(r.bands) |->
                  [r.bands[b] EXCEPT !.px =
                      [i \in 1..Len(@) |-> IF aoi[i] THEN @[i] ELSE CastSample(new, r.dtype)]]]]

Overwrite(r, aoi, new) ==
    [r EXCEPT !.nodata = new,
              !.bands = [b \in 1..Len(r.bands) |->
                  [r.bands[b] EXCEPT !.px =
                      [i \in 1..Len(@) |-> IF aoi[i] THEN @[i] ELSE CastSample(new, r.dtype)]]]]

\* change_nodata(new_nodata, old_nodata), old_nodata one value or None.
\* np.isnan(None) raises TypeError; numpy refuses to store NaN in an integer
\* array.
change_nodata(p, new, old) ==
    LET r == image[p]
        val == IF old = None THEN r.nodata ELSE old
    IN  IF r = NoImage THEN Raises("change_nodata", p, "ImageEmpty")
        ELSE IF val = None THEN Raises("change_nodata", p, "TypeError")
        ELSE IF new = NaN /\ r.dtype = "uint8" THEN Raises("change_nodata", p, "ValueError")
        ELSE Mutates("change_nodata", p, Overwrite(r, NodataMask(r, val), new))

\* rio.clip(geometries=[boundary], drop=True): the boundary either covers the
\* raster's pixels ("inside": the data is kept) or misses the raster
\* ("outside": rioxarray raises NoDataInBounds); a raster without a CRS
\* raises MissingCRS.
ClipError(r, boundary) ==
    IF r.crs = NoCRS THEN "MissingCRS"
    ELSE IF boundary = "outside" THEN "NoDataInBounds"
    ELSE "ok"

clip(p, boundary) ==
    IF image[p] = NoImage THEN Raises("clip", p, "ImageEmpty")
    ELSE IF ClipError(image[p], boundary) # "ok"
         THEN Raises("clip", p, ClipError(image[p], boundary))
    ELSE Mutates("clip", p, image[p])

\* The boundary shrink clips to: buffered inward by a distance the valid area
\* survives (1), or by one that leaves nothing (any larger distance).
Shrunk(distance) == IF distance = 1 THEN "inside" ELSE "outside"

\* shrink clipping without self.clip's own entry.
shrink_one_entry(p, distance) ==
    LET r == image[p] IN
    IF r = NoImage THEN Raises("shrink", p, "ImageEmpty")
    ELSE IF distance <= 0 THEN Raises("shrink", p, "ValueError")
    ELSE IF \A i \in 1..Len(Aoi(r)) : ~Aoi(r)[i] THEN Raises("shrink", p, "EmptyBoundary")
    ELSE IF ClipError(r, Shrunk(distance)) # "ok"
         THEN Raises("shrink", p, ClipError(r, Shrunk(distance)))
    ELSE Mutates("shrink", p, r)

\* shrink(distance): get_boundary of an empty AOI has no centroid; the clip is
\* self.clip, which appends its own entry before shrink appends one.
shrink(p, distance) ==
    LET r == image[p] IN
    IF r = NoImage THEN Raises("shrink", p, "ImageEmpty")
    ELSE IF distance <= 0 THEN Raises("shrink", p, "ValueError")
    ELSE IF \A i \in 1..Len(Aoi(r)) : ~Aoi(r)[i] THEN Raises("shrink", p, "EmptyBoundary")
    ELSE IF ClipError(r, Shrunk(distance)) # "ok"
         THEN Raises("shrink", p, ClipError(r, Shrunk(distance)))
    ELSE /\ image' = [image EXCEPT ![p] = r]
         /\ lists' = add_log_lists(add_log_lists(lists, log, p, Entry("clip")),
                                   log, p, Entry("shrink"))
         /\ UNCHANGED log
         /\ Returns("shrink", p, "ok", p)

\* A CRS argument is a string, kept as its first four characters and the
\* rest.  ParseCRS is the library's reading of it: the CRS it names, or NoCRS.
CrsArg(prefix, rest) == [prefix |-> prefix, rest |-> rest]
ParseCRS(s) ==
    IF s = CrsArg("EPSG", ":3857") THEN "EPSG:3857"
    ELSE IF s = CrsArg("EPSG", ":4326") \/ s = CrsArg("WGS8", "4") THEN "EPSG:4326"
    ELSE NoCRS

\* The value rioxarray fills a reprojected raster with where it has no source
\* pixel: the raster's nodata, or the default of its pixel type.
Fill(r) == IF r.nodata # None THEN r.nodata ELSE IF r.dtype = "uint8" THEN 510 ELSE NaN

\* rio.reproject onto another grid: each sample is the nearest source sample
\* (`keep`) or the fill value.
Reproject(r, crs, keep) ==
    IF r.crs = crs THEN r
    ELSE [r EXCEPT !.crs = crs,
                   !.bands = [b \in 1..Len(r.bands) |->
                       [r.bands[b] EXCEPT !.px =
                           [i \in 1..Len(@) |-> IF keep THEN @[i] ELSE Fill(r)]]]]

reproject(p, crs, keep) ==
    LET r == image[p] IN
    IF r = NoImage THEN Raises("reproject", p, "ImageEmpty")
    ELSE IF crs.prefix # "EPSG" THEN Raises("reproject", p, "ValueError")
    ELSE IF r.crs = NoCRS THEN Raises("reproject", p, "MissingCRS")
    ELSE IF ParseCRS(crs) = NoCRS THEN Raises("reproject", p, "CRSError")
    ELSE Mutates("reproject", p, Reproject(r, ParseCRS(crs), keep))

\* Resampling.__members__
ResamplingMembers == {"nearest", "bilinear", "cubic"}

CeilDiv(a, b) == (a + b - 1) \div b

\* The raster resampled to ceil(n / factor) pixels.
Rescaled(r, factor) ==
    [r EXCEPT !.bands = [b \in 1..Len(r.bands) |->
        [r.bands[b] EXCEPT !.px =
            [i \in 1..CeilDiv(Len(@), factor) |-> @[RMin(Len(@), (i - 1) * factor + 1)]]]]]

\* rescale with the factor tested before the raster.
rescale_factor_first(p, factor, resampling) ==
    LET r == image[p] IN
    IF factor = 1 THEN Returns("rescale", p, "ok", p) /\ UNCHANGED <<image, log, lists>>
    ELSE IF r = NoImage THEN Raises("rescale", p, "ImageEmpty")
    ELSE IF resampling \notin ResamplingMembers THEN Raises("rescale", p, "ValueError")
    ELSE IF r.crs = NoCRS THEN Raises("rescale", p, "MissingCRS")
    ELSE Mutates("rescale", p, Rescaled(r, factor))

rescale(p, factor, resampling) ==
    LET r == image[p] IN
    IF r = NoImage THEN Raises("rescale", p, "ImageEmpty")
    ELSE IF factor = 1 THEN Returns("rescale", p, "ok", p) /\ UNCHANGED <<image, log, lists>>
    ELSE IF resampling \notin ResamplingMembers THEN Raises("rescale", p, "ValueError")
    ELSE IF r.crs = NoCRS THEN Raises("rescale", p, "MissingCRS")
    ELSE Mutates("rescale", p, Rescaled(r, factor))

\* assign_coords(band=names): the band axis renamed, the samples kept.
Relabel(r, names) ==
    [r EXCEPT !.bands = [b \in 1..Len(r.bands) |->
        [r.bands[b] EXCEPT !.label = [kind |-> "str", text |-> names[b]]]]]

\* ["B1", ..., "Bn"]
\* Labels counted from zero.
DefaultAliasFromZero(n) == [i \in 1..n |-> <<"B", i - 1>>]

DefaultAlias(n) == [i \in 1..n |-> <<"B", i>>]

reset_band_alias(p) ==
    IF image[p] = NoImage THEN Raises("reset_band_alias", p, "ImageEmpty")
    ELSE Mutates("reset_band_alias", p, Relabel(image[p], DefaultAlias(NBands(image[p]))))

\* set_band_alias without the length check: the last name given is repeated.
set_band_alias_padding(p, alias) ==
    IF image[p] = NoImage THEN Raises("set_band_alias", p, "ImageEmpty")
    ELSE Mutates("set_band_alias", p,
            Relabel(image[p], [b \in 1..NBands(image[p]) |-> alias[RMin(b, Len(alias))]]))

set_band_alias(p, alias) ==
    IF image[p] = NoImage THEN Raises("set_band_alias", p, "ImageEmpty")
    ELSE IF Len(alias) # NBands(image[p]) THEN Raises("set_band_alias", p, "ValueError")
    ELSE Mutates("set_band_alias", p, Relabel(image[p], alias))


\* --------------------------------------------------------- advanced operations
\* get_band_alias: [f"{ba}" for ba in self.image.band.values]
Aliases(r) == [b \in 1..Len(r.bands) |-> r.bands[b].label.text]

Range(f) == {f[i] : i \in DOMAIN f}

\* The band index holds the Python string `text`: a label lookup (sel, loc)
\* with a string finds no integer coordinate.
HasStrLabel(r, text) == \E b \in 1..Len(r.bands) : r.bands[b].label = [kind |-> "str", text |-> text]

\* band *= sf on one sample of a float raster.
ScaleSample(v, sf) == IF v = NaN THEN NaN ELSE v * sf

\* self.image.loc[dict(band=alias)] *= sf
ScaleBand(r, text, sf) ==
    [r EXCEPT !.bands = [b \in 1..Len(r.bands) |->
        IF r.bands[b].label.text = text
        THEN [r.bands[b] EXCEPT !.px = [i \in 1..Len(@) |-> ScaleSample(@[i], sf)]]
        ELSE r.bands[b]]]

\* apply_scale_factor's loop over scale_factor.items(), from entry i on: the
\* raster as the loop leaves it and how the loop ended.  The factor is a
\* Python float, which numpy refuses to multiply into an integer array.
RECURSIVE ScaleLoop(_, _, _)
ScaleLoop(r, mapping, i) ==
    IF i > Len(mapping) THEN [r |-> r, err |-> "ok"]
    ELSE IF mapping[i][1] \notin Range(Aliases(r)) THEN [r |-> r, err |-> "ValueError"]
    ELSE IF ~HasStrLabel(r, mapping[i][1]) THEN [r |-> r, err |-> "KeyError"]
    ELSE IF r.dtype = "uint8" THEN [r |-> r, err |-> "UFuncTypeError"]
    ELSE ScaleLoop(ScaleBand(r, mapping[i][1], mapping[i][2]), mapping, i + 1)

apply_scale_factor(p, scale_factor) ==
    LET out == ScaleLoop(image[p], scale_factor, 1) IN
    IF image[p] = NoImage THEN Raises("apply_scale_factor", p, "ImageEmpty")
    ELSE IF out.err # "ok"
         THEN /\ image' = [image EXCEPT ![p] = out.r]
              /\ UNCHANGED <<log, lists>>
              /\ Returns("apply_scale_factor", p, out.err, 0)
    ELSE Mutates("apply_scale_factor", p, out.r)

\* The raster generate_backbone builds: nbands bands named "1".."n" on the
\* source's grid and CRS, filled with fill_value.
Backbone(r, nbands, pixel_dtype, fill_value, nodata) ==
    [dims |-> "band_y_x", crs |-> r.crs, dtype |-> pixel_dtype, nodata |-> nodata,
     bands |-> [b \in 1..(IF nbands = 0 THEN NBands(r) ELSE nbands) |->
                  Band("str", <<"", b>>,
                       [i \in 1..Len(r.bands[1].px) |-> CastSample(fill_value, pixel_dtype)])]]

\* What stops generate_backbone: the y and x coordinates do not fit data taken
\* from a raster with another axis order, and write_crs needs a CRS.
BackboneError(r) ==
    IF ~DimsOk(r) THEN "ValueError"
    ELSE IF r.crs = NoCRS THEN "MissingCRS"
    ELSE "ok"

\* A new processor holding raster r and the list object with index lg.
Produce(r, lg) ==
    /\ Len(image) < NProc
    /\ image' = Append(image, r)
    /\ log' = Append(log, lg)

\* generate_backbone: SatImage().read_tif(backbone).set_log(self.log).add_log(..):
\* the new processor holds the source's own list.
generate_backbone(p, nbands, pixel_dtype, fill_value, nodata) ==
    LET r == image[p] IN
    IF r = NoImage THEN Raises("generate_backbone", p, "ImageEmpty")
    ELSE IF BackboneError(r) # "ok" THEN Raises("generate_backbone", p, BackboneError(r))
    ELSE /\ Produce(Backbone(r, nbands, pixel_dtype, fill_value, nodata), log[p])
         /\ lists' = add_log_lists(lists, log, p, Entry("generate_backbone"))
         /\ Returns("generate_backbone", p, "ok", Len(image) + 1)

AppendAll(lst, es) == lst \o es

\* The first next() on calculate_index({alias: eq}), eq being "B[k]": the
\* backbone is generated (and its entry appended) before eval(eq) runs.
calculate_index(p, alias, k) ==
    LET r == image[p]
        bb == Backbone(r, 1, "float32", NaN, NaN)
        res == [bb EXCEPT !.bands = << Band("str", alias, CastPx(r.bands[k].px, "float32")) >>]
    IN  IF r = NoImage THEN Raises("calculate_index", p, "ImageEmpty")
        ELSE IF BackboneError(r) # "ok" THEN Raises("calculate_index", p, BackboneError(r))
        ELSE IF k > NBands(r)
             THEN /\ lists' = add_log_lists(lists, log, p, Entry("generate_backbone"))
                  /\ UNCHANGED <<image, log>>
                  /\ Returns("calculate_index", p, "KeyError", 0)
        ELSE /\ Produce(res, log[p])
             /\ lists' = [lists EXCEPT ![log[p]] = AppendAll(@,
                    << Entry("generate_backbone"), Entry("calculate_index"),
                       Entry("set_band_alias") >>)]
             /\ Returns("calculate_index", p, "ok", Len(image) + 1)

\* calculate_index is a generator function: the call runs none of its body and
\* hands out a generator object.  mapping is the dict as the sequence of its
\* items <<alias, k>>, the equation of an item being "B[k]"; B is the band
\* table the body builds once, when it is first resumed.
Generator(p, mapping) ==
    [self |-> p, mapping |-> mapping, pos |-> 0, B |-> <<>>, state |-> "created"]

calculate_index_iter(p, mapping) ==
    /\ gens' = Append(gens, Generator(p, mapping))
    /\ UNCHANGED <<image, log, lists, time>>
    /\ Done("calculate_index_iter", p, "ok", Len(gens) + 1)

\* A generator that has raised or run off its end is finished.
Finish(g, B) == gens' = [gens EXCEPT ![g].state = "finished", ![g].B = B]

\* next() on generator g: resume the body up to its next yield.  The first
\* resumption runs the emptiness test and builds B from the raster held then;
\* every resumption does one item of the mapping: generate_backbone on the
\* raster held now (the new processor gets self's list and an entry), eval of
\* the equation against B, add_log, set_band_alias, yield.
calculate_index_next(g) ==
    LET gen == gens[g]
        p == gen.self
        r == image[p]
        B == IF gen.state = "created"
             THEN [b \in 1..NBands(r) |-> r.bands[b].px] ELSE gen.B
        item == gen.mapping[gen.pos + 1]
        bb == Backbone(r, 1, "float32", NaN, NaN)
        res == [bb EXCEPT !.bands = << Band("str", item[1], CastPx(B[item[2]], "float32")) >>]
    IN  IF gen.state = "finished"
        THEN /\ UNCHANGED <<image, log, lists, time, gens>>
             /\ Done("calculate_index_next", p, "StopIteration", 0)
        ELSE IF gen.state = "created" /\ r = NoImage
        THEN /\ Finish(g, <<>>)
             /\ UNCHANGED <<image, log, lists, time>>
             /\ Done("calculate_index_next", p, "ImageEmpty", 0)
        ELSE IF gen.pos = Len(gen.mapping)
        THEN /\ Finish(g, B)
             /\ UNCHANGED <<image, log, lists, time>>
             /\ Done("calculate_index_next", p, "StopIteration", 0)
        ELSE IF BackboneError(r) # "ok"
        THEN /\ Finish(g, B)
             /\ UNCHANGED <<image, log, lists, time>>
             /\ Done("calculate_index_next", p, BackboneError(r), 0)
        ELSE IF item[2] > Len(B)
        THEN /\ Finish(g, B)
             /\ lists' = add_log_lists(lists, log, p, Entry("generate_backbone"))
             /\ UNCHANGED <<image, log, time>>
             /\ Done("calculate_index_next", p, "KeyError", 0)
        ELSE /\ Produce(res, log[p])
             /\ lists' = [lists EXCEPT ![log[p]] = AppendAll(@,
                    << Entry("generate_backbone"), Entry("calculate_index"),
                       Entry("set_band_alias") >>)]
             /\ gens' = [gens EXCEPT ![g] = [gen EXCEPT !.pos = @ + 1, !.B = B,
                                                        !.state = "running"]]
             /\ UNCHANGED time
             /\ Done("calculate_index_next", p, "ok", Len(image) + 1)

\* calculate_band_stats: sel(band=alias) per alias, statistics over the AOI.
HasDuplicates(seq) == \E i, j \in 1..Len(seq) : i < j /\ seq[i] = seq[j]

\* What stops the statistics of a raster: sel(band=alias) finds no string in
\* an integer index (KeyError) and returns every band of a repeated alias,
\* which the AOI mask does not fit (IndexError); np.min of no pixel raises
\* ValueError.
StatsError(r) ==
    IF \E b \in 1..NBands(r) : r.bands[b].label.kind # "str" THEN "KeyError"
    ELSE IF HasDuplicates(Aliases(r)) THEN "IndexError"
    ELSE IF \A i \in 1..Len(Aoi(r)) : ~Aoi(r)[i] THEN "ValueError"
    ELSE "ok"

\* calculate_band_stats leaving an entry in the log.
calculate_band_stats_logged(p) ==
    IF image[p] = NoImage THEN Raises("calculate_band_stats", p, "ImageEmpty")
    ELSE Mutates("calculate_band_stats", p, image[p])

calculate_band_stats(p) ==
    LET r == image[p] IN
    IF r = NoImage THEN Raises("calculate_band_stats", p, "ImageEmpty")
    ELSE IF StatsError(r) # "ok" THEN Raises("calculate_band_stats", p, StatsError(r))
    ELSE ReadOnly("calculate_band_stats", p)

\* ----------------------------------------------------------------- rendering
\* A two-colour colormap on one sample, as 8-bit values: the colour channels
\* and the alpha channel.
Colour(v, vmax) == IF v = NaN THEN 0 ELSE IF v >= vmax THEN 510 ELSE 0
Alpha(v, inAoi) == IF inAoi /\ v # NaN THEN 510 ELSE 0

Rendered(r, vmin, vmax) ==
    LET px == r.bands[1].px
        col == [i \in 1..Len(px) |-> Colour(px[i], vmax)]
        alp == [i \in 1..Len(px) |-> Alpha(px[i], Aoi(r)[i])]
    IN  [dims |-> "band_y_x", crs |-> r.crs, dtype |-> "uint8", nodata |-> 0,
         bands |-> << Band("str", <<"R", 0>>, col), Band("str", <<"G", 0>>, col),
                      Band("str", <<"B", 0>>, col), Band("str", <<"A", 0>>, alp) >>]

\* render_index: the RGBA processor comes from generate_backbone.
render_index(p, vmin, vmax) ==
    LET r == image[p] IN
    IF r = NoImage THEN Raises("render_index", p, "ImageEmpty")
    ELSE IF NBands(r) # 1 THEN Raises("render_index", p, "ValueError")
    ELSE IF vmin > vmax THEN Raises("render_index", p, "ValueError")
    ELSE IF BackboneError(r) # "ok" THEN Raises("render_index", p, BackboneError(r))
    ELSE /\ Produce(Rendered(r, vmin, vmax), log[p])
         /\ lists' = [lists EXCEPT ![log[p]] = AppendAll(@,
                << Entry("generate_backbone"), Entry("render_index"),
                   Entry("set_band_alias") >>)]
         /\ Returns("render_index", p, "ok", Len(image) + 1)

\* -------------------------------------------------------------------- export
\* copy: SatImage().read_tif(self.image.copy()).set_log(self.log.copy())
\* .add_log({"action": "copy"}); read_tif validates the copied raster.
copy(p) ==
    LET r == image[p] IN
    IF r = NoImage THEN Raises("copy", p, "ImageEmpty")
    ELSE IF ~FormatValid(r) THEN Raises("copy", p, "ValueError")
    ELSE /\ Produce(r, Len(lists) + 1)
         /\ lists' = Append(lists, Append(LogOf(p), Entry("copy")))
         /\ Returns("copy", p, "ok", Len(image) + 1)

\* The first band of r labelled with the string `text`.
BandNamed(r, text) ==
    r.bands[CHOOSE b \in 1..Len(r.bands) :
                /\ r.bands[b].label = [kind |-> "str", text |-> text]
                /\ \A c \in 1..(b - 1) : r.bands[c].label # r.bands[b].label]

\* self.image.sel(band=bands): the named bands in the order given.
Sel(r, bands) == [r EXCEPT !.bands = [i \in 1..Len(bands) |-> BandNamed(r, bands[i])]]

\* What stops sel: an index with repeated labels cannot be looked up by a
\* list, and every name must be in the index.
SelError(r, bands) ==
    IF HasDuplicates(Aliases(r)) THEN "InvalidIndexError"
    ELSE IF \E i \in 1..Len(bands) : ~HasStrLabel(r, bands[i]) THEN "KeyError"
    ELSE "ok"

extract_band(p, bands) ==
    LET r == image[p] IN
    IF r = NoImage THEN Raises("extract_band", p, "ImageEmpty")
    ELSE IF SelError(r, bands) # "ok" THEN Raises("extract_band", p, SelError(r, bands))
    ELSE IF ~FormatValid(r) THEN Raises("extract_band", p, "ValueError")
    ELSE /\ Produce(Sel(r, bands), Len(lists) + 1)
         /\ lists' = Append(lists, Append(LogOf(p), Entry("extract_band")))
         /\ Returns("extract_band", p, "ok", Len(image) + 1)

to_png_bytesio(p) ==
    IF image[p] = NoImage THEN Raises("to_png_bytesio", p, "ImageEmpty")
    ELSE IF NBands(image[p]) # 4 THEN Raises("to_png_bytesio", p, "ValueError")
    ELSE IF image[p].dtype # "uint8" THEN Raises("to_png_bytesio", p, "ValueError")
    ELSE ReadOnly("to_png_bytesio", p)

to_tif_bytesio(p) ==
    IF image[p] = NoImage THEN Raises("to_tif_bytesio", p, "ImageEmpty")
    ELSE ReadOnly("to_tif_bytesio", p)

\* to_png and to_tif: the byte stream of the method above written to a file
\* (opened tells whether open(path, "wb") succeeds); self is returned.
to_png(p, opened) ==
    IF image[p] = NoImage THEN Raises("to_png", p, "ImageEmpty")
    ELSE IF NBands(image[p]) # 4 THEN Raises("to_png", p, "ValueError")
    ELSE IF image[p].dtype # "uint8" THEN Raises("to_png", p, "ValueError")
    ELSE IF ~opened THEN Raises("to_png", p, "OSError")
    ELSE Returns("to_png", p, "ok", p) /\ UNCHANGED <<image, log, lists>>

to_tif(p, opened) ==
    IF image[p] = NoImage THEN Raises("to_tif", p, "ImageEmpty")
    ELSE IF ~opened THEN Raises("to_tif", p, "OSError")
    ELSE Returns("to_tif", p, "ok", p) /\ UNCHANGED <<image, log, lists>>

\* ----------------------------------------------------------------- attributes
is_empty(p) == ReadOnly("is_empty", p)

get_band_alias(p) ==
    IF image[p] = NoImage THEN Raises("get_band_alias", p, "ImageEmpty")
    ELSE /\ Returns("get_band_alias", p, "ok", Aliases(image[p]))
         /\ UNCHANGED <<image, log, lists>>

get_image(p) ==
    IF image[p] = NoImage THEN Raises("get_image", p, "ImageEmpty")
    ELSE ReadOnly("get_image", p)

get_aoi(p) ==
    IF image[p] = NoImage THEN Raises("get_aoi", p, "ImageEmpty")
    ELSE ReadOnly("get_aoi", p)

get_boundary(p) ==
    IF image[p] = NoImage THEN Raises("get_boundary", p, "ImageEmpty")
    ELSE ReadOnly("get_boundary", p)


\* --------------------------------------------------------------------- merge
\* rio.reproject_match(backbone): the raster on the backbone's grid.  On the
\* same grid the samples are kept; on another grid each sample is the nearest
\* source sample (`keep`) or the fill value.
SameGrid(r, bb) == r.crs = bb.crs /\ Len(r.bands[1].px) = Len(bb.bands[1].px)

ReprojectMatch(r, bb, keep) ==
    IF SameGrid(r, bb) THEN r
    ELSE [r EXCEPT !.crs = bb.crs,
                   !.bands = [b \in 1..Len(r.bands) |->
                       [r.bands[b] EXCEPT !.px =
                           [i \in 1..Len(bb.bands[1].px) |->
                               IF keep THEN @[RMin(i, Len(@))] ELSE Fill(r)]]]]

\* A Dataset that puts a new variable first.
DsSetFirst(ds, key, px) == << [label |-> key, px |-> px] >> \o ds

\* ds[alias] = band: a Dataset keeps one variable per key, in the order the
\* keys were first set.  The key is the raw label: 1 and "1" are two keys.
DsSet(ds, key, px) ==
    IF \E k \in 1..Len(ds) : ds[k].label = key
    THEN [k \in 1..Len(ds) |-> IF ds[k].label = key THEN [label |-> key, px |-> px] ELSE ds[k]]
    ELSE Append(ds, [label |-> key, px |-> px])

\* `alias in band_alias`: band_alias holds Python strings (f"{alias}"), alias
\* is the raw label, and an integer equals no string.
AliasCollected(label, band_alias) == label.kind = "str" /\ label.text \in Range(band_alias)

\* merge's inner loop over one image's bands, from band bi on.
RECURSIVE MergeBands(_, _, _, _)
MergeBands(bands, bi, dtype, acc) ==
    IF acc.err # "ok" \/ bi > Len(bands) THEN acc
    ELSE IF AliasCollected(bands[bi].label, acc.band_alias)
         THEN [acc EXCEPT !.err = "NotUnique"]
    ELSE MergeBands(bands, bi + 1, dtype,
            [band_alias |-> Append(acc.band_alias, bands[bi].label.text),
             ds |-> DsSet(acc.ds, bands[bi].label, CastPx(bands[bi].px, dtype)),
             err |-> "ok"])

\* merge's outer loop over the images, from image i on.
RECURSIVE MergeImages(_, _, _, _, _, _)
MergeImages(images, i, backbone, dtype, keep, acc) ==
    IF acc.err # "ok" \/ i > Len(images) THEN acc
    ELSE IF images[i].crs = NoCRS \/ backbone.crs = NoCRS
         THEN [acc EXCEPT !.err = "MissingCRS"]
    ELSE MergeImages(images, i + 1, backbone, dtype, keep,
            MergeBands(ReprojectMatch(images[i], backbone, keep).bands, 1, dtype, acc))

\* [si.get_image() for si in satimages if not si.is_empty()]
RECURSIVE NonEmptyImages(_, _)
NonEmptyImages(satimages, i) ==
    IF i > Len(satimages) THEN <<>>
    ELSE IF image[satimages[i]] = NoImage THEN NonEmptyImages(satimages, i + 1)
    ELSE << image[satimages[i]] >> \o NonEmptyImages(satimages, i + 1)

\* ds.to_array(dim="band"): write_crs, write_transform and write_nodata are
\* called without inplace, so what they return is dropped; the CRS is the one
\* the reprojected bands carry and no nodata value is recorded.
Merged(ds, backbone, dtype) ==
    [dims |-> "band_y_x", crs |-> backbone.crs, dtype |-> dtype, nodata |-> None,
     bands |-> ds]

\* The entry merge appends: "satimages" holds the inputs' list objects.
MergeEntry(satimages) ==
    [action |-> "merge", refs |-> [i \in 1..Len(satimages) |-> log[satimages[i]]]]

\* merge(satimages, backbone, dtype, nodata); backbone NoImage stands for None.
merge(p, satimages, backbone, dtype, nodata, keep) ==
    LET images == NonEmptyImages(satimages, 1)
        bb == IF backbone = NoImage THEN images[1] ELSE backbone
        acc == MergeImages(images, 1, bb, dtype, keep,
                           [band_alias |-> <<>>, ds |-> <<>>, err |-> "ok"])
        merged == Merged(acc.ds, bb, dtype)
    IN  IF Len(images) = 0
        THEN \* return SatImage()
             /\ Len(image) < NProc
             /\ image' = Append(image, NoImage)
             /\ lists' = Append(lists, NewLog)
             /\ log' = Append(log, Len(lists) + 1)
             /\ Returns("merge", p, "ok", Len(image) + 1)
        ELSE IF Len(images) = 1
        THEN \* return images[0], a DataArray where Self is declared
             Raises("merge", p, "TypeCheckError")
        ELSE IF acc.err # "ok" THEN Raises("merge", p, acc.err)
        ELSE IF Len(acc.band_alias) # Len(acc.ds)
        THEN \* self.image = merged, then set_band_alias raises
             /\ image' = [image EXCEPT ![p] = merged]
             /\ UNCHANGED <<log, lists>>
             /\ Returns("merge", p, "ValueError", 0)
        ELSE /\ image' = [image EXCEPT ![p] = Relabel(merged, acc.band_alias)]
             /\ lists' = [lists EXCEPT ![log[p]] = AppendAll(@,
                    << Entry("set_band_alias"), MergeEntry(satimages) >>)]
             /\ UNCHANGED log
             /\ Returns("merge", p, "ok", p)

\* ----------------------------------------------------------------- timestamps
\* set_time(t): gives the processor its timestamp and returns the processor.
set_time(p, t) ==
    /\ time' = [time EXCEPT ![p] = t]
    /\ UNCHANGED <<image, log, lists, gens>>
    /\ Done("set_time", p, "ok", p)

\* -------------------------------------------------------------------- fusion
\* sorted(simages, key=lambda simage: simage.time): a stable sort.
RECURSIVE InsertByTime(_, _)
InsertByTime(sorted, q) ==
    IF sorted = <<>> THEN << q >>
    ELSE IF time[Head(sorted)] <= time[q]
         THEN << Head(sorted) >> \o InsertByTime(Tail(sorted), q)
    ELSE << q >> \o sorted

\* The list taken in the order it was passed.
AsPassed(simages) == simages

RECURSIVE SortedByTime(_)
SortedByTime(simages) ==
    IF simages = <<>> THEN <<>>
    ELSE InsertByTime(SortedByTime(SubSeq(simages, 1, Len(simages) - 1)),
                      simages[Len(simages)])

\* simage.image.band.values.tolist(): the raw labels, integers or strings.
Labels(r) == [b \in 1..Len(r.bands) |-> r.bands[b].label]

\* The mean calculate_band_stats reports for band b: over the AOI pixels.
RECURSIVE SumAoi(_, _, _)
SumAoi(px, aoi, i) ==
    IF i > Len(px) THEN [sum |-> 0, n |-> 0, nan |-> FALSE]
    ELSE LET rest == SumAoi(px, aoi, i + 1)
         IN  IF ~aoi[i] THEN rest
             ELSE [sum |-> rest.sum + px[i], n |-> rest.n + 1,
                   nan |-> rest.nan \/ px[i] = NaN]

BandMean(r, b) ==
    LET t == SumAoi(r.bands[b].px, Aoi(r), 1)
    IN  IF t.nan THEN NaN ELSE t.sum \div t.n

\* np.interp(x, xp, fp): linear between the points, the end values outside.
Interp(x, xp, fp) ==
    LET n == Len(xp) IN
    IF x <= xp[1] THEN fp[1]
    ELSE IF x >= xp[n] THEN fp[n]
    ELSE LET i == CHOOSE i \in 1..(n - 1) : xp[i] <= x /\ x < xp[i + 1]
         IN  IF fp[i] = NaN \/ fp[i + 1] = NaN THEN NaN
             ELSE fp[i] + ((fp[i + 1] - fp[i]) * (x - xp[i])) \div (xp[i + 1] - xp[i])

\* value_arr[aoi] = value_arr[aoi] + dst - base, stored in the array's type;
\* aoi is value_arr != nodata, which a NaN or missing nodata makes all true.
ShiftSample(v, nodata, dst, base, dtype) ==
    IF nodata # None /\ nodata # NaN /\ v = nodata THEN v
    ELSE IF v = NaN \/ dst = NaN \/ base = NaN THEN CastSample(NaN, dtype)
    ELSE CastSample(v + dst - base, dtype)

\* The copy of the latest image moved to target x.
Interpolated(rs, xp, x) ==
    LET base == rs[Len(rs)]
    IN  [base EXCEPT !.bands = [b \in 1..Len(base.bands) |->
            [base.bands[b] EXCEPT !.px = [i \in 1..Len(@) |->
                ShiftSample(@[i], base.nodata,
                            Interp(x, xp, [k \in 1..Len(rs) |-> BandMean(rs[k], b)]),
                            BandMean(base, b), base.dtype)]]]]

\* if isinstance(time, datetime): time = [time]
TargetList(tm) == IF tm.single THEN << tm.at >> ELSE tm.at

\* What stops interp_image before it builds a result, in the order of the code.
InterpError(simages) ==
    LET ss == SortedByTime(simages)
        rs == [k \in 1..Len(ss) |-> image[ss[k]]]
    IN  IF Len(simages) >= 2 /\ \E k \in 1..Len(simages) : time[simages[k]] = None
        THEN "TypeError"
        ELSE IF \E k \in 1..Len(rs) : rs[k] = NoImage THEN "AttributeError"
        ELSE IF Cardinality({Labels(rs[k]) : k \in 1..Len(rs)}) # 1 THEN "ValueError"
        ELSE IF Cardinality({rs[k].dtype : k \in 1..Len(rs)}) # 1 THEN "ValueError"
        ELSE IF \E k \in 1..Len(ss) : time[ss[k]] = None THEN "ValueError"
        ELSE IF \E k \in 1..Len(rs) : StatsError(rs[k]) # "ok"
             THEN StatsError(rs[CHOOSE k \in 1..Len(rs) :
                     StatsError(rs[k]) # "ok" /\ \A j \in 1..(k - 1) : StatsError(rs[j]) = "ok"])
        ELSE "ok"

\* interp_image(simages, time): one copy of the latest image per target.
\* The caller's list sorted in place, as simages.sort(key=...) would leave it.
CallerListSorted(simages) == SortedByTime(simages)

\* The caller's list after the call: sorted() builds a new list and binds the
\* local name to it, so the list that was passed keeps its order.
CallerList(simages) == simages

interp_image(simages, tm) ==
    LET ss == SortedByTime(simages)
        rs == [k \in 1..Len(ss) |-> image[ss[k]]]
        xp == [k \in 1..Len(ss) |-> time[ss[k]]]
        targets == TargetList(tm)
        n == Len(targets)
        err == InterpError(simages)
        fails == IF err # "ok" THEN err
                 ELSE IF n > 0 /\ ~FormatValid(rs[Len(rs)]) THEN "ValueError"
                 ELSE "ok"
    IN  IF fails # "ok"
        THEN /\ Done("interp_image", 0, fails, 0)
             /\ UNCHANGED <<image, log, lists, time, gens>>
        ELSE /\ Len(image) + n <= NProc
             /\ UNCHANGED gens
             /\ image' = image \o [k \in 1..n |-> Interpolated(rs, xp, targets[k])]
             /\ lists' = lists \o [k \in 1..n |->
                            Append(LogOf(ss[Len(ss)]), Entry("copy"))]
             /\ log' = log \o [k \in 1..n |-> Len(lists) + k]
             /\ time' = [q \in DOMAIN time |->
                            IF q > Len(image) /\ q <= Len(image) + n
                            THEN targets[q - Len(image)] ELSE time[q]]
             /\ Done("interp_image", 0, "ok", [k \in 1..n |-> Len(image) + k])

\* ------------------------------------------------------------ the arguments
Dtypes == {"uint8", "float32"}
NodataArgs == { <<NaN, 0>>, <<0, None>>, <<0, 5>> }
AliasArgs == { << <<"red", 0>> >>, << <<"red", 0>>, <<"red", 0>> >>,
               << <<"red", 0>>, <<"nir", 0>> >> }
BandArgs == { << <<"nir", 0>>, <<"red", 0>> >>, << <<"red", 0>>, <<"red", 0>> >>,
              << <<"", 1>> >> }
ScaleArgs == { << << <<"red", 0>>, 2 >> >>,
               << << <<"red", 0>>, 2 >>, << <<"zzz", 0>>, 2 >> >>,
               << << <<"", 1>>, 2 >> >> }
CrsArgs == { <<CrsArg("EPSG", ":3857"), TRUE>>, <<CrsArg("EPSG", ":3857"), FALSE>>,
             <<CrsArg("EPSG", ":0"), TRUE>>, <<CrsArg("WGS8", "4"), TRUE>> }
ReadArgs == {<<f, TRUE>> : f \in Files} \cup {<<FileA, FALSE>>}
MergeArgs == {<<"float32", TRUE>>, <<"uint8", FALSE>>}
SatLists == {<<>>} \cup {<<q>> : q \in Procs} \cup {<<q, r>> : q, r \in Procs}

\* ---------------------------------------------------------- the state machine
\* Calls are made while the run's budget of calls lasts.
Running == calls < MaxCalls

Next ==
    \/ Running /\ Construct /\ args' = <<>>
    \/ Running /\ \E p \in Procs, a \in ReadArgs : read_tif(p, a[1], a[2]) /\ args' = <<>>
    \/ Running /\ \E p \in Procs, raise_error \in BOOLEAN : check_image_format(p, raise_error) /\ args' = <<raise_error>>
    \/ Running /\ \E p \in Procs : set_log(p, <<>>) /\ args' = <<>>
    \/ Running /\ \E p \in Procs : add_log(p, Entry("note")) /\ args' = <<>>
    \/ Running /\ \E p \in Procs, dtype \in Dtypes : change_pixel_dtype(p, dtype) /\ args' = <<>>
    \/ Running /\ \E p \in Procs, a \in NodataArgs : change_nodata(p, a[1], a[2]) /\ args' = a
    \/ Running /\ \E p \in Procs, boundary \in {"inside", "outside"} : clip(p, boundary) /\ args' = <<>>
    \/ Running /\ \E p \in Procs, distance \in 0..2 : shrink(p, distance) /\ args' = <<>>
    \/ Running /\ \E p \in Procs, a \in CrsArgs : reproject(p, a[1], a[2]) /\ args' = <<a[1]>>
    \/ Running /\ \E p \in Procs, factor \in 1..2, resampling \in {"bilinear", "bogus"} :
                      rescale(p, factor, resampling) /\ args' = <<factor, resampling>>
    \/ Running /\ \E p \in Procs : reset_band_alias(p) /\ args' = <<>>
    \/ Running /\ \E p \in Procs, alias \in AliasArgs : set_band_alias(p, alias) /\ args' = <<alias>>
    \/ Running /\ \E p \in Procs, sf \in ScaleArgs : apply_scale_factor(p, sf) /\ args' = <<sf>>
    \/ Running /\ \E p \in Procs, nbands \in 0..1 : generate_backbone(p, nbands, "float32", 0, NaN) /\ args' = <<>>
    \/ Running /\ \E p \in Procs, k \in 1..2 : calculate_index(p, <<"NDVI", 0>>, k) /\ args' = <<>>
    \/ Running /\ \E p \in Procs : calculate_band_stats(p) /\ args' = <<>>
    \/ Running /\ \E p \in Procs, v \in {<<0, 2>>, <<2, 0>>} : render_index(p, v[1], v[2]) /\ args' = v
    \/ Running /\ \E p \in Procs : copy(p) /\ args' = <<>>
    \/ Running /\ \E p \in Procs, bands \in BandArgs : extract_band(p, bands) /\ args' = <<bands>>
    \/ Running /\ \E p \in Procs : to_png_bytesio(p) /\ args' = <<>>
    \/ Running /\ \E p \in Procs : to_tif_bytesio(p) /\ args' = <<>>
    \/ Running /\ \E p \in Procs : is_empty(p) /\ args' = <<>>
    \/ Running /\ \E p \in Procs : get_band_alias(p) /\ args' = <<>>
    \/ Running /\ \E p \in Procs : get_image(p) /\ args' = <<>>
    \/ Running /\ \E p \in Procs : get_aoi(p) /\ args' = <<>>
    \/ Running /\ \E p \in Procs : get_boundary(p) /\ args' = <<>>
    \/ Running /\ \E p \in Procs, satimages \in SatLists, a \in MergeArgs :
                      merge(p, satimages, NoImage, a[1], NaN, a[2]) /\ args' = <<satimages, a[1], a[2]>>

Spec == Init /\ [][Next]_vars


\* The band operations alone: loading, naming and selecting bands, and merge.
NextBands ==
    \/ Running /\ \E p \in Procs, a \in ReadArgs : read_tif(p, a[1], a[2]) /\ args' = <<>>
    \/ Running /\ \E p \in Procs : reset_band_alias(p) /\ args' = <<>>
    \/ Running /\ \E p \in Procs, alias \in AliasArgs : set_band_alias(p, alias) /\ args' = <<alias>>
    \/ Running /\ \E p \in Procs, bands \in BandArgs : extract_band(p, bands) /\ args' = <<bands>>
    \/ Running /\ \E p \in Procs, satimages \in SatLists, a \in MergeArgs :
                      merge(p, satimages, NoImage, a[1], NaN, a[2]) /\ args' = <<satimages, a[1], a[2]>>

SpecBands == Init /\ [][NextBands]_vars

\* Time interpolation: processors that carry rasters and timestamps, and the
\* calls that prepare and run interp_image.
FileC == [dims |-> "band_y_x", crs |-> "EPSG:4326", dtype |-> "float32", nodata |-> None,
          bands |-> << Band("str", <<"red", 0>>, <<2>>), Band("str", <<"nir", 0>>, <<6>>) >>]
FileD == [dims |-> "band_y_x", crs |-> "EPSG:4326", dtype |-> "float32", nodata |-> 0,
          bands |-> << Band("str", <<"red", 0>>, <<6>>), Band("str", <<"nir", 0>>, <<2>>) >>]
Times == {1, 3}
TargetArgs == { [single |-> TRUE, at |-> 3], [single |-> FALSE, at |-> <<2>>],
                [single |-> FALSE, at |-> <<3, 2>>], [single |-> FALSE, at |-> <<>>] }
FusionStarts == {Fresh, Loaded(FileA), Loaded(FileC), Loaded(FileD)}

InitFusion ==
    /\ \E s \in [1..2 -> FusionStarts] :
          /\ image = [p \in 1..2 |-> s[p].image]
          /\ lists = [p \in 1..2 |-> s[p].lst]
    /\ log = [p \in 1..2 |-> p]
    /\ \E t \in [1..2 -> Times \cup {None}] :
          time = [p \in 1..NProc |-> IF p <= 2 THEN t[p] ELSE None]
    /\ last = Outcome("SatImage", 0, "ok", 0)
    /\ calls = 0
    /\ args = <<>>
    /\ gens = <<>>

NextFusion ==
    \/ Running /\ \E p \in Procs, a \in ReadArgs : read_tif(p, a[1], a[2]) /\ args' = <<>>
    \/ Running /\ \E p \in Procs, dtype \in Dtypes : change_pixel_dtype(p, dtype) /\ args' = <<>>
    \/ Running /\ \E p \in Procs, alias \in AliasArgs : set_band_alias(p, alias) /\ args' = <<alias>>
    \/ Running /\ \E p \in Procs, t \in Times : set_time(p, t) /\ args' = <<t>>
    \/ Running /\ \E simages \in SatLists, tm \in TargetArgs :
                      interp_image(simages, tm) /\ args' = <<simages, tm, CallerList(simages)>>

SpecFusion == InitFusion /\ [][NextFusion]_vars

\* shrink's choice of a UTM CRS for the boundary centroid (x, y).  Longitudes
\* and latitudes are in half degrees, so (centroid.x + 180) / 6 is
\* (x + 360) / 12 and np.floor of it is the integer quotient.
zone_number_unwrapped(x) == ((x + 360) \div 12) + 1

zone_number(x) == (((x + 360) \div 12) % 60) + 1

\* The number after "EPSG:" in utm_epsg_code.
utm_epsg_code(x, y) ==
    IF y >= 0 THEN 32600 + zone_number(x) ELSE 32700 + zone_number(x)

\* Every centroid with longitude in [-180, 180] and latitude in [-90, 90], in
\* steps of half a degree in longitude and at the poles, next to the equator
\* and on it in latitude.
Centroids == ((-360)..360) \X {-180, -1, 0, 1, 180}

InitUtm ==
    /\ image = <<>> /\ lists = <<>> /\ log = <<>>
    /\ last = Outcome("SatImage", 0, "ok", 0)
    /\ calls = 0
    /\ args \in Centroids
    /\ time = [p \in 1..NProc |-> None]
    /\ gens = <<>>

find_utm_zone ==
    /\ calls = 0
    /\ Returns("utm_epsg_code", 0, "ok", utm_epsg_code(args[1], args[2]))
    /\ UNCHANGED <<image, log, lists, args>>

NextUtm == find_utm_zone

SpecUtm == InitUtm /\ [][NextUtm]_vars

\* The operations that only read, among the calls that give them rasters
\* with and without string aliases, nodata values and four uint8 bands to read.
NextReadOnly ==
    \/ Running /\ \E p \in Procs, a \in ReadArgs : read_tif(p, a[1], a[2]) /\ args' = <<>>
    \/ Running /\ \E p \in Procs, a \in NodataArgs : change_nodata(p, a[1], a[2]) /\ args' = a
    \/ Running /\ \E p \in Procs, v \in {<<0, 2>>, <<2, 0>>} : render_index(p, v[1], v[2]) /\ args' = v
    \/ Running /\ \E p \in Procs : calculate_band_stats(p) /\ args' = <<>>
    \/ Running /\ \E p \in Procs : get_aoi(p) /\ args' = <<>>
    \/ Running /\ \E p \in Procs : get_boundary(p) /\ args' = <<>>
    \/ Running /\ \E p \in Procs : get_band_alias(p) /\ args' = <<>>
    \/ Running /\ \E p \in Procs : is_empty(p) /\ args' = <<>>
    \/ Running /\ \E p \in Procs : to_tif_bytesio(p) /\ args' = <<>>
    \/ Running /\ \E p \in Procs, opened \in BOOLEAN : to_tif(p, opened) /\ args' = <<opened>>
    \/ Running /\ \E p \in Procs : to_png_bytesio(p) /\ args' = <<>>
    \/ Running /\ \E p \in Procs, opened \in BOOLEAN : to_png(p, opened) /\ args' = <<opened>>

SpecReadOnly == Init /\ [][NextReadOnly]_vars

\* Iterating an index mapping: one processor, the mappings of up to two items
\* in both orders, and two calls more than elsewhere, since making the
\* generator, drawing two items from it and changing the source in between
\* takes four calls.
IndexArgs == { <<>>, << <<<<"NDVI", 0>>, 1>> >>,
               << <<<<"NDVI", 0>>, 1>>, <<<<"EVI", 0>>, 2>> >>,
               << <<<<"EVI", 0>>, 2>>, <<<<"NDVI", 0>>, 1>> >> }

InitIndex ==
    /\ \E s \in Starts :
          /\ image = << s.image >>
          /\ lists = << s.lst >>
    /\ log = << 1 >>
    /\ last = Outcome("SatImage", 0, "ok", 0)
    /\ calls = 0
    /\ args = <<>>
    /\ time = [p \in 1..NProc |-> None]
    /\ gens = <<>>

RunningIndex == calls < MaxCalls + 2

NextIndex ==
    \/ RunningIndex /\ \E p \in Procs, mapping \in IndexArgs :
                           calculate_index_iter(p, mapping) /\ args' = <<mapping>>
    \/ RunningIndex /\ \E g \in 1..Len(gens) : calculate_index_next(g) /\ args' = <<g>>
    \/ RunningIndex /\ \E p \in Procs, a \in ReadArgs : read_tif(p, a[1], a[2]) /\ args' = <<>>
    \/ RunningIndex /\ \E p \in Procs : set_log(p, <<>>) /\ args' = <<>>
    \/ RunningIndex /\ \E p \in Procs : add_log(p, Entry("note")) /\ args' = <<>>

SpecIndex == InitIndex /\ [][NextIndex]_vars

\* ------------------------------------------------------------------ properties
IsPrefix(s, t) == Len(s) <= Len(t) /\ \A i \in 1..Len(s) : s[i] = t[i]

\* The step is a call of `op` on processor p.
Called(op, p) == calls' = calls + 1 /\ last'.op = op /\ last'.self = p

\* The operations the empty-image precondition is claimed for.
EmptyGuardedOps ==
    {"change_pixel_dtype", "change_nodata", "clip", "shrink", "reproject", "rescale",
     "set_band_alias", "reset_band_alias", "apply_scale_factor", "generate_backbone",
     "calculate_band_stats", "render_index", "copy", "extract_band", "to_png_bytesio",
     "to_tif_bytesio", "get_band_alias", "get_image", "get_aoi", "get_boundary"}

C2_NoSharedState ==
    [][\A p, q \in 1..Len(image) :
          (p # q /\ calls' = calls + 1 /\ last'.self = q)
          => /\ lists'[log'[p]] = lists[log[p]]
             /\ image'[p] = image[p]]_vars

\* The operations the one-entry-per-call statement names.
LoggedOps ==
    {"read_tif", "change_pixel_dtype", "change_nodata", "clip", "shrink", "reproject",
     "rescale", "set_band_alias", "reset_band_alias", "apply_scale_factor", "merge"}

\* C3 as stated: every successful call of a listed operation makes the
\* receiver's log exactly one entry longer.
C3_OneEntryPerCall ==
    [][\A p \in 1..Len(image) :
          (calls' = calls + 1 /\ last'.self = p /\ last'.op \in LoggedOps
              /\ last'.res = "ok")
          => Len(lists'[log'[p]]) = Len(lists[log[p]]) + 1]_vars

\* The operations that append one entry on success whatever their arguments.
OneEntryOps == LoggedOps \ {"shrink", "rescale", "merge"}

\* C3 amended: a successful read_tif, change_pixel_dtype, change_nodata, clip,
\* reproject, set_band_alias, reset_band_alias or apply_scale_factor appends
\* exactly one entry to the receiver's log; shrink appends two (clip's and its
\* own); rescale appends one when the factor is not 1 and none when it is 1;
\* merge appends two (set_band_alias's and its own) when two or more inputs
\* hold a raster and none when no input does.  What was there before stays.
C3_EntriesPerCall ==
    [][\A p \in 1..Len(image) :
          LET before == lists[log[p]]
              after == lists'[log'[p]]
              ok == calls' = calls + 1 /\ last'.self = p /\ last'.res = "ok"
          IN  /\ (ok /\ last'.op \in OneEntryOps)
                  => (Len(after) = Len(before) + 1 /\ IsPrefix(before, after))
              /\ (ok /\ last'.op = "shrink")
                  => (Len(after) = Len(before) + 2 /\ IsPrefix(before, after))
              /\ (ok /\ last'.op = "rescale")
                  => after = (IF args'[1] = 1 THEN before
                              ELSE Append(before, Entry("rescale")))
              /\ (ok /\ last'.op = "merge")
                  => LET n == Len(NonEmptyImages(args'[1], 1))
                     IN  /\ n # 1
                         /\ Len(after) = Len(before) + (IF n = 0 THEN 0 ELSE 2)
                         /\ IsPrefix(before, after)]_vars

\* C3's cases: a shrink that succeeded and left two entries, clip then shrink.
C3_Witness ==
    /\ last.op = "shrink"
    /\ last.res = "ok"
    /\ Len(LogOf(last.self)) >= 4
    /\ LogOf(last.self)[Len(LogOf(last.self))] = Entry("shrink")
    /\ LogOf(last.self)[Len(LogOf(last.self)) - 1] = Entry("clip")

\* C4 as stated: over every call, the log a processor held before is a prefix
\* of the log it holds after.
C4_AppendOnly ==
    [][\A p \in 1..Len(image) : IsPrefix(lists[log[p]], lists'[log'[p]])]_vars

\* C4 amended: over every call other than set_log on that processor, whether
\* the call succeeds or fails, the log a processor held before is a prefix of
\* the log it holds after.
C4_AppendOnlyButSetLog ==
    [][\A p \in 1..Len(image) :
          ~(last'.op = "set_log" /\ last'.self = p)
          => IsPrefix(lists[log[p]], lists'[log'[p]])]_vars

\* C4's case: a read_tif that failed its validation, on a processor that had
\* loaded a raster before; the earlier entries are still there.
C4_Witness ==
    /\ last.op = "read_tif"
    /\ last.res = "ValueError"
    /\ LogOf(last.self) = << Entry("initialize"), Entry("read_tif"), Entry("read_tif") >>

\* C5: copy on a processor that holds a raster returns a new processor with an
\* equal raster and with the source's log followed by the entry "copy".
C5_CopyIsIndependent ==
    [][\A p \in 1..Len(image) :
          (Called("copy", p) /\ image[p] # NoImage)
          => /\ last'.res = "ok"
             /\ last'.ret \notin 1..Len(image)
             /\ last'.ret \in 1..Len(image')
             /\ image'[last'.ret] = image[p]
             /\ lists'[log'[last'.ret]] = Append(lists[log[p]], Entry("copy"))]_vars

\* C6: a raster a processor holds has the axes (band, y, x) and a CRS.
C6_HeldRasterValid ==
    \A p \in Procs : image[p] # NoImage => (DimsOk(image[p]) /\ image[p].crs # NoCRS)

\* C7: the band aliases of a held raster are pairwise distinct, one per band.
C7_AliasesDistinct ==
    \A p \in Procs :
        image[p] # NoImage =>
            /\ ~HasDuplicates(Aliases(image[p]))
            /\ Len(Aliases(image[p])) = NBands(image[p])

\* C8: check_image_format(raise_error=False) returns True for a valid raster
\* and False in every other case, the empty processor included; with
\* raise_error=True the other cases raise ValueError.
C8_CheckImageFormat ==
    [][\A p \in 1..Len(image) :
          Called("check_image_format", p)
          => last'.res = (IF FormatValid(image[p]) THEN "True"
                          ELSE IF args'[1] THEN "ValueError" ELSE "False")]_vars

\* The bands of the rasters of a list, in list order.
RECURSIVE AllBands(_)
AllBands(images) ==
    IF images = <<>> THEN <<>> ELSE Head(images).bands \o AllBands(Tail(images))

\* The inputs C9 is about: two or more hold a raster, the rasters are valid
\* and on the first one's grid, and their band aliases are pairwise distinct.
MergeableInputs(satimages) ==
    LET images == NonEmptyImages(satimages, 1)
    IN  /\ Len(images) >= 2
        /\ \A i \in 1..Len(images) : FormatValid(images[i]) /\ SameGrid(images[i], images[1])
        /\ ~HasDuplicates([b \in 1..Len(AllBands(images)) |-> AllBands(images)[b].label.text])

LabelCollision(images) ==
    \E i, j \in 1..Len(images) :
        /\ i < j
        /\ \E bi \in 1..Len(images[i].bands), bj \in 1..Len(images[j].bands) :
              images[i].bands[bi].label = images[j].bands[bj].label

\* C10: merge of two or more valid rasters fails with the 'not unique' error
\* whenever a band label of an input equals a label collected from an earlier
\* input, string or default, and the receiver's raster and log stay as they were.
C10_CollisionFails ==
    [][\A p \in 1..Len(image) :
          LET images == NonEmptyImages(args'[1], 1)
          IN  (Called("merge", p) /\ Len(images) >= 2
                  /\ (\A i \in 1..Len(images) : FormatValid(images[i]))
                  /\ LabelCollision(images))
              => /\ last'.res = "NotUnique"
                 /\ image'[p] = image[p]
                 /\ lists'[log'[p]] = lists[log[p]]]_vars

\* C11: merge returns the processor it was called on for every input list, and
\* when one or more inputs hold a raster (valid, on one grid, with distinct
\* aliases) the receiver afterwards holds the bands collected from them.
C11_MergeReturnsSelf ==
    [][\A p \in 1..Len(image) :
          LET images == NonEmptyImages(args'[1], 1)
              src == AllBands(images)
          IN  (/\ Called("merge", p)
               /\ \A i \in 1..Len(images) :
                     FormatValid(images[i]) /\ SameGrid(images[i], images[1])
               /\ ~HasDuplicates([b \in 1..Len(src) |-> src[b].label.text]))
              => /\ last'.res = "ok"
                 /\ last'.ret = p
                 /\ Len(images) >= 1 =>
                       /\ NBands(image'[p]) = Len(src)
                       /\ \A b \in 1..Len(src) :
                             image'[p].bands[b].label = Str(src[b].label)]_vars

\* The pixel positions of a raster and those where some band holds zero.
Positions(r) == 1..Len(r.bands[1].px)
HeldZero(r, i) == \E b \in 1..Len(r.bands) : r.bands[b].px[i] = 0

Samples(r) == [b \in 1..Len(r.bands) |-> r.bands[b].px]

\* C13: on an n-band processor set_band_alias(list) with n names succeeds and
\* get_band_alias then returns exactly that list; with another number of names
\* the call raises an error and leaves the raster and every log unchanged.
\* get_band_alias returns the aliases the raster holds and changes nothing.
C13_SetThenGetAlias ==
    [][\A p \in 1..Len(image) :
          /\ (Called("set_band_alias", p) /\ image[p] # NoImage)
              => IF Len(args'[1]) = NBands(image[p])
                 THEN /\ last'.res = "ok"
                      /\ Aliases(image'[p]) = args'[1]
                      /\ Samples(image'[p]) = Samples(image[p])
                 ELSE /\ last'.res = "ValueError"
                      /\ image' = image
                      /\ lists' = lists
                      /\ log' = log
          /\ (Called("get_band_alias", p) /\ image[p] # NoImage)
              => /\ last'.res = "ok"
                 /\ last'.ret = Aliases(image[p])
                 /\ image' = image
                 /\ lists' = lists]_vars

\* C13's case: get_band_alias, called after set_band_alias(["red"]) on a raster
\* loaded with the band label 1, has returned ["red"].
C13_Witness ==
    /\ last.op = "get_band_alias"
    /\ last.res = "ok"
    /\ last.ret = << <<"red", 0>> >>
    /\ LogOf(last.self) = << Entry("initialize"), Entry("read_tif"), Entry("set_band_alias") >>

\* C14: right after a successful read_tif of an n-band raster the aliases
\* get_band_alias returns are the default labels ["B1", ..., "Bn"].
C14_DefaultAliasAfterLoad ==
    [][\A p \in 1..Len(image) :
          (Called("read_tif", p) /\ last'.res = "ok")
          => Aliases(image'[p]) = [b \in 1..NBands(image'[p]) |-> <<"B", b>>]]_vars

\* C15: reset_band_alias on an n-band raster makes the aliases "B1", ..., "Bn"
\* whatever they were, leaves the samples unchanged, and a second
\* reset_band_alias gives the aliases the first one gave.
C15_ResetBandAlias ==
    [][\A p \in 1..Len(image) :
          (Called("reset_band_alias", p) /\ image[p] # NoImage)
          => /\ last'.res = "ok"
             /\ NBands(image'[p]) = NBands(image[p])
             /\ \A b \in 1..NBands(image[p]) : Aliases(image'[p])[b] = <<"B", b>>
             /\ Samples(image'[p]) = Samples(image[p])
             /\ Aliases(image[p]) = [b \in 1..NBands(image[p]) |-> <<"B", b>>]
                   => Aliases(image'[p]) = Aliases(image[p])]_vars

\* C15's case: reset_band_alias has been applied twice to the two-band raster
\* that was loaded with the aliases red and nir.
C15_Witness ==
    /\ last.op = "reset_band_alias"
    /\ last.res = "ok"
    /\ LogOf(last.self) = << Entry("initialize"), Entry("read_tif"),
                             Entry("reset_band_alias"), Entry("reset_band_alias") >>
    /\ Aliases(image[last.self]) = << <<"B", 1>>, <<"B", 2>> >>
    /\ Samples(image[last.self]) = Samples(FileB)

\* C16: extract_band(list) on a processor whose aliases include every listed
\* alias returns a new processor whose aliases are the listed ones in the
\* listed order, each band carrying the samples of the source band of that
\* name, and leaves the source's raster unchanged.
C16_ExtractBand ==
    [][\A p \in 1..Len(image) :
          (/\ Called("extract_band", p)
           /\ image[p] # NoImage
           /\ \A i \in 1..Len(args'[1]) : args'[1][i] \in Range(Aliases(image[p])))
          => /\ last'.res = "ok"
             /\ last'.ret \in (1..Len(image')) \ (1..Len(image))
             /\ Aliases(image'[last'.ret]) = args'[1]
             /\ \A i \in 1..Len(args'[1]) :
                   \E b \in 1..NBands(image[p]) :
                       /\ Aliases(image[p])[b] = args'[1][i]
                       /\ image'[last'.ret].bands[i].px = image[p].bands[b].px
             /\ image'[p] = image[p]]_vars

\* The step is a call of interp_image.
CalledInterp == calls' = calls + 1 /\ last'.op = "interp_image"

\* The inputs hold rasters with one set of band aliases and one pixel type,
\* and each carries a timestamp.
HoldRasters(simages) == \A k \in 1..Len(simages) : image[simages[k]] # NoImage
SameAliasSet(simages) ==
    \A j, k \in 1..Len(simages) :
        Range(Aliases(image[simages[j]])) = Range(Aliases(image[simages[k]]))
SamePixelType(simages) ==
    \A j, k \in 1..Len(simages) : image[simages[j]].dtype = image[simages[k]].dtype
AllTimed(simages) == \A k \in 1..Len(simages) : time[simages[k]] # None

\* C17: on inputs that hold rasters, interp_image raises ValueError exactly
\* when the alias sets differ, the pixel types differ or an input has no
\* timestamp, and accepts the inputs otherwise.
C17_InterpValidation ==
    [][(CalledInterp /\ Len(args'[1]) >= 1 /\ HoldRasters(args'[1]))
          => LET simages == args'[1]
                 agree == SameAliasSet(simages) /\ SamePixelType(simages) /\ AllTimed(simages)
             IN  last'.res = (IF agree THEN "ok" ELSE "ValueError")]_vars

\* C18: interp_image on two agreeing inputs with timestamps T0 < T1 returns, for
\* a target equal to T1, an image whose samples are those of the T1 input.
C18_InterpAtLatest ==
    [][(/\ CalledInterp
        /\ Len(args'[1]) = 2
        /\ HoldRasters(args'[1])
        /\ SameAliasSet(args'[1]) /\ SamePixelType(args'[1]) /\ AllTimed(args'[1])
        /\ time[args'[1][1]] # time[args'[1][2]])
          => LET simages == args'[1]
                 hi == IF time[simages[1]] < time[simages[2]] THEN simages[2] ELSE simages[1]
                 targets == TargetList(args'[2])
             IN  /\ last'.res = "ok"
                 /\ \A k \in 1..Len(targets) :
                       targets[k] = time[hi]
                       => Samples(image'[last'.ret[k]]) = Samples(image[hi])]_vars

\* C19: interp_image on agreeing inputs returns one processor per target, in
\* target order, the k-th with the k-th target as its time and with the
\* shape, pixel type and band aliases of the input with the latest timestamp;
\* a single target counts as a list of one.
C19_InterpOnePerTarget ==
    [][(/\ CalledInterp
        /\ Len(args'[1]) >= 1
        /\ HoldRasters(args'[1])
        /\ SameAliasSet(args'[1]) /\ SamePixelType(args'[1]) /\ AllTimed(args'[1]))
          => LET simages == args'[1]
                 hi == CHOOSE q \in Range(simages) : \A r \in Range(simages) : time[r] <= time[q]
                 targets == IF args'[2].single THEN << args'[2].at >> ELSE args'[2].at
             IN  /\ last'.res = "ok"
                 /\ Len(last'.ret) = Len(targets)
                 /\ \A k \in 1..Len(targets) :
                       /\ last'.ret[k] \notin 1..Len(image)
                       /\ time'[last'.ret[k]] = targets[k]
                       /\ image'[last'.ret[k]].dtype = image[hi].dtype
                       /\ Aliases(image'[last'.ret[k]]) = Aliases(image[hi])
                       /\ Len(image'[last'.ret[k]].bands[1].px) = Len(image[hi].bands[1].px)]_vars

\* A request: next() on generator g.
Requested(g) == calls' = calls + 1 /\ last'.op = "calculate_index_next" /\ args' = <<g>>

\* The item generator g does next refers to a band its table holds (the table
\* is built from the raster held at the first request).
Resolves(g) ==
    gens[g].mapping[gens[g].pos + 1][2] <=
        (IF gens[g].state = "created" THEN NBands(image[gens[g].self]) ELSE Len(gens[g].B))

\* C20: iterating calculate_index(mapping) on a processor that holds a raster
\* yields exactly one processor per item of the mapping, in the mapping's
\* order, the k-th with exactly one band whose alias is the k-th key, and then
\* stops; the call itself does no work, and an item's work (its backbone, as a
\* new processor, and its log entries) is done in the request for that item and
\* in no other step.
C20_IndexIteration ==
    [][/\ (calls' = calls + 1 /\ last'.op = "calculate_index_iter")
            => image' = image /\ lists' = lists /\ log' = log
       /\ \A g \in 1..Len(gens) :
            LET gen == gens[g] IN
            /\ gens'[g] # gen => Requested(g)
            /\ (/\ Requested(g)
                /\ gen.state # "finished"
                /\ image[gen.self] # NoImage
                /\ gen.pos < Len(gen.mapping) => Resolves(g))
                  => IF gen.pos < Len(gen.mapping)
                     THEN /\ last'.res = "ok"
                          /\ gens'[g].pos = gen.pos + 1
                          /\ Len(image') = Len(image) + 1
                          /\ last'.ret = Len(image')
                          /\ Aliases(image'[last'.ret]) = << gen.mapping[gen.pos + 1][1] >>
                          /\ lists' = [lists EXCEPT ![log[gen.self]] = @ \o
                                << Entry("generate_backbone"), Entry("calculate_index"),
                                   Entry("set_band_alias") >>]
                     ELSE /\ last'.res = "StopIteration"
                          /\ image' = image /\ lists' = lists]_vars

\* C21: render_index(vmin, vmax) fails when the image does not have exactly
\* one band or when vmin > vmax, and then yields no processor; on a
\* single-band image with vmin <= vmax it returns a new processor with the four
\* bands R, G, B, A of type uint8 whose alpha is 0 at every pixel outside the
\* source's AOI.
C21_RenderIndex ==
    [][\A p \in Procs :
          Called("render_index", p)
          => LET r == image[p]
                 vmin == args'[1]
                 vmax == args'[2]
             IN  IF NBands(r) # 1 \/ vmin > vmax
                 THEN last'.res # "ok" /\ image' = image
                 ELSE /\ last'.res = "ok"
                      /\ last'.ret \notin Procs
                      /\ Aliases(image'[last'.ret]) = << <<"R", 0>>, <<"G", 0>>, <<"B", 0>>, <<"A", 0>> >>
                      /\ image'[last'.ret].dtype = "uint8"
                      /\ \A i \in 1..Len(r.bands[1].px) :
                            ~Aoi(r)[i] => image'[last'.ret].bands[4].px[i] = 0]_vars

\* C22: rescale with a resampling name that is not a known method fails for
\* every factor, 1 included, and leaves the raster and the log unchanged.
C22_UnknownResamplingFails ==
    [][\A p \in Procs :
          (Called("rescale", p) /\ args'[2] \notin ResamplingMembers)
          => /\ last'.res # "ok"
             /\ image' = image /\ lists' = lists /\ log' = log]_vars

\* C23: reproject(crs) on a processor that holds a raster fails exactly when
\* crs is not a recognized CRS identifier, and a failure leaves the raster and
\* the log unchanged.
C23_ReprojectRejectsUnrecognized ==
    [][\A p \in Procs :
          (Called("reproject", p) /\ image[p] # NoImage)
          => /\ last'.res # "ok" <=> ParseCRS(args'[1]) = NoCRS
             /\ last'.res # "ok" => image' = image /\ lists' = lists /\ log' = log]_vars

\* C24: apply_scale_factor with a mapping that names an alias the image does
\* not have fails, and then no band's samples have changed and no log entry
\* has been appended, wherever the unknown alias stands in the mapping.
C24_UnknownAliasChangesNothing ==
    [][\A p \in Procs :
          (/\ Called("apply_scale_factor", p)
           /\ image[p] # NoImage
           /\ \E i \in 1..Len(args'[1]) : args'[1][i][1] \notin Range(Aliases(image[p])))
          => /\ last'.res # "ok"
             /\ Samples(image'[p]) = Samples(image[p])
             /\ lists' = lists /\ log' = log]_vars

\* C25: whatever is done to the source between two requests on a
\* calculate_index iterator, a yielded result is computed from one state of the
\* source: its grid is that of the raster the source holds at the request, and
\* its samples are the samples that raster has in the band the item's
\* expression names.
C25_IndexFromOneState ==
    [][\A g \in 1..Len(gens) :
          (Requested(g) /\ last'.res = "ok")
          => LET src == image[gens[g].self]
                 k == gens[g].mapping[gens[g].pos + 1][2]
                 out == image'[last'.ret]
             IN  /\ out.crs = src.crs /\ out.dims = src.dims
                 /\ Len(out.bands[1].px) = Len(src.bands[1].px)
                 /\ k <= NBands(src)
                 /\ out.bands[1].px = CastPx(src.bands[k].px, "float32")]_vars

\* Sample v is the nodata value val (NaN is matched by isnan, any other value
\* by equality, which NaN never satisfies).
IsNodata(v, val) == IF val = NaN THEN v = NaN ELSE (v # NaN /\ v = val)

\* The old nodata value a change_nodata call on raster r replaces.
OldNodata(r, old) == IF old = None THEN r.nodata ELSE old

C27_InterpLeavesInputs ==
    [][CalledInterp
          => /\ \A q \in Procs :
                   /\ image'[q] = image[q]
                   /\ time'[q] = time[q]
                   /\ lists'[log'[q]] = lists[log[q]]
             /\ args'[3] = args'[1]]_vars

\* C27's case: interp_image has returned processors for two inputs that were
\* passed latest first.
C27_Witness ==
    /\ last.op = "interp_image"
    /\ last.res = "ok"
    /\ Len(last.ret) >= 1
    /\ Len(args[1]) = 2
    /\ time[args[1][1]] > time[args[1][2]]

\* C28: interp_image's result does not depend on the order of the input list:
\* a call on two inputs with distinct timestamps ends exactly as the call on
\* the same two inputs in the other order does (the same outcome, the same
\* new processors with the same rasters, timestamps and logs).
C28_InterpOrderFree ==
    [][(/\ CalledInterp
        /\ Len(args'[1]) = 2
        /\ time[args'[1][1]] # None /\ time[args'[1][2]] # None
        /\ time[args'[1][1]] # time[args'[1][2]])
          => interp_image(<< args'[1][2], args'[1][1] >>, args'[2])]_vars

\* C28's case: interp_image has returned processors for two inputs that hold
\* different rasters and were passed latest first.
C28_Witness ==
    /\ last.op = "interp_image"
    /\ last.res = "ok"
    /\ Len(last.ret) >= 1
    /\ Len(args[1]) = 2
    /\ time[args[1][1]] # None /\ time[args[1][2]] # None
    /\ time[args[1][1]] > time[args[1][2]]
    /\ image[args[1][1]] # image[args[1][2]]

\* C29: for a centroid with longitude in [-180, 180] the zone shrink computes
\* is in 1..60, it is the six-degree strip the longitude lies in (longitude 180
\* wrapping to zone 1), and the CRS code is 32600 + zone for latitude >= 0 and
\* 32700 + zone for latitude < 0, so it is in 32601..32660 or 32701..32760.
C29_UtmZoneInRange ==
    last.op = "utm_epsg_code"
    => LET x == args[1]
           y == args[2]
           zone == IF y >= 0 THEN last.ret - 32600 ELSE last.ret - 32700
       IN  /\ zone \in 1..60
           /\ y >= 0 => last.ret \in 32601..32660
           /\ y < 0 => last.ret \in 32701..32760
           /\ x = 360 => zone = 1
           /\ x < 360 => 12 * (zone - 1) <= x + 360 /\ x + 360 < 12 * zone

\* C29's case: the code has been computed for longitude 180 on the southern
\* side, and it is that of zone 1.
C29_Witness ==
    /\ last.op = "utm_epsg_code"
    /\ args = <<360, -1>>
    /\ last.ret = 32701

ReadOnlyOps == {"calculate_band_stats", "get_aoi", "get_boundary", "get_band_alias",
                "is_empty", "to_tif_bytesio", "to_tif", "to_png_bytesio", "to_png"}

\* C30: calculate_band_stats, get_aoi, get_boundary, get_band_alias, is_empty,
\* to_tif_bytesio, to_tif, to_png_bytesio and to_png leave every raster
\* (samples, band aliases, nodata, CRS) and every log as they were, whether
\* they succeed or fail.
C30_ReadOnlyOps ==
    [][(calls' = calls + 1 /\ last'.op \in ReadOnlyOps)
          => image' = image /\ lists' = lists /\ log' = log]_vars

\* C30's case: a PNG has been written from a rendered raster.
C30_Witness ==
    /\ last.op = "to_png" /\ last.res = "ok"
    /\ NBands(image[last.self]) = 4

====
